---------------------------- MODULE Spec2Model ----------------------------
(***************************************************************************)
(* A model of dc_chunker.py: the chunk partitioning and recombination      *)
(* helpers of datacube-utilities.  Every function of the file is a pure    *)
(* function of its arguments; a call is one action that draws the          *)
(* arguments from bounded sets and stores the outcome (a returned value or *)
(* the exception raised), and Return drops it again: nothing persists      *)
(* between calls.                                                          *)
(*                                                                         *)
(* Numbers of the geographic chunker are exact rationals <<num, den>> in   *)
(* lowest terms with den > 0, so that "/" and math.ceil are computed and   *)
(* not assumed.                                                            *)
(***************************************************************************)
EXTENDS Integers, Sequences, FiniteSets

VARIABLES pc, call, result

vars == <<pc, call, result>>

(***************************************************************************)
(* Bounds of the model.                                                    *)
(***************************************************************************)
MaxCoord == 2
MaxSizeNum == 3
MaxSizeDen == 2
MaxTime == 3
MaxListLen == 4
MaxBatch == 3
MaxYear == 2
MaxMonth == 2
MaxGroupLen == 3
MaxElem == 2
MaxBaseLen == 5
MaxWindow == 3
MaxLat == 2
MaxLon == 2
MaxTimeLabels == 2
MaxChunks == 2

(***************************************************************************)
(* Python values and outcomes.                                             *)
(***************************************************************************)
PyNone == [kind |-> "None", items |-> <<>>]

PyTuple(s) == [kind |-> "tuple", items |-> s]

\* bool(x) of None or of a tuple: None and the empty tuple are falsy.
Truthy(x) == x.kind = "tuple" /\ Len(x.items) > 0

PyInt(k) == [kind |-> "int", n |-> k]

PyList(s) == [kind |-> "list", items |-> s]

Returned(v) == [status |-> "ok", value |-> v]

Raised(e) == [status |-> e, value |-> <<>>]

NoCall == [fn |-> "none"]

NoResult == [status |-> "none", value |-> <<>>]

(***************************************************************************)
(* Exact rational arithmetic.                                              *)
(***************************************************************************)
Abs(i) == IF i < 0 THEN -i ELSE i

RECURSIVE GCD(_, _)
GCD(a, b) == IF b = 0 THEN a ELSE GCD(b, a % b)

\* The rational n/d (d # 0) in lowest terms with a positive denominator.
Rat(n, d) ==
    LET g == GCD(Abs(n), Abs(d))
        s == IF d < 0 THEN -1 ELSE 1
    IN  <<(s * n) \div g, (s * d) \div g>>

FromInt(i) == <<i, 1>>

RAdd(x, y) == Rat(x[1] * y[2] + y[1] * x[2], x[2] * y[2])

RSub(x, y) == Rat(x[1] * y[2] - y[1] * x[2], x[2] * y[2])

RMul(x, y) == Rat(x[1] * y[1], x[2] * y[2])

\* x / y for y # 0 (Python raises ZeroDivisionError for y = 0: see the callers).
RDiv(x, y) == Rat(x[1] * y[2], x[2] * y[1])

RIsZero(x) == x[1] = 0

RLess(x, y) == x[1] * y[2] < y[1] * x[2]

RLeq(x, y) == x[1] * y[2] <= y[1] * x[2]

\* math.ceil: the least integer >= x.
Ceil(x) == -((-x[1]) \div x[2])

(***************************************************************************)
(* create_geographic_chunks                                                *)
(***************************************************************************)

\* The arguments drawn for latitude and longitude: None, the empty tuple, a
\* tuple of one number, and every pair of integer coordinates (in either
\* order, so that zero and negative extents occur).
Coords == 0..MaxCoord

GeoRanges ==
    {PyNone, PyTuple(<<>>)}
        \cup {PyTuple(<<FromInt(a)>>) : a \in Coords}
        \cup {PyTuple(<<FromInt(a), FromInt(b)>>) : a \in Coords, b \in Coords}

\* The arguments drawn for geographic_chunk_size: n/d, zero included.
ChunkSizes == {Rat(n, d) : n \in 0..MaxSizeNum, d \in 1..MaxSizeDen}

\* "or" in place of "and"
RangesGivenMutant(latitude, longitude) == Truthy(latitude) \/ Truthy(longitude)

\* assert latitude and longitude
RangesGiven(latitude, longitude) == Truthy(latitude) /\ Truthy(longitude)

\* The exception of x[0], x[1], or "none".
SubscriptError(x) ==
    IF x.kind = "None" THEN "TypeError"
    ELSE IF Len(x.items) < 2 THEN "IndexError"
    ELSE "none"

square_area(latitude, longitude) ==
    RMul(RSub(latitude.items[2], latitude.items[1]),
         RSub(longitude.items[2], longitude.items[1]))

\* math.floor in place of math.ceil
geographic_chunksMutant(area, geographic_chunk_size) ==
    RDiv(area, geographic_chunk_size)[1] \div RDiv(area, geographic_chunk_size)[2]

\* math.ceil(square_area / geographic_chunk_size), geographic_chunk_size # 0
geographic_chunks(area, geographic_chunk_size) ==
    Ceil(RDiv(area, geographic_chunk_size))

\* (latitude[1] - latitude[0]) / geographic_chunks, geographic_chunks # 0
latitude_chunk_size(latitude, n) ==
    RDiv(RSub(latitude.items[2], latitude.items[1]), FromInt(n))

\* One pair per chunk_number in range(n): chunk_number is i - 1 here, and
\* range(n) is empty for n <= 0.
latitude_ranges(latitude, width, n) ==
    [i \in 1..n |->
        <<RAdd(latitude.items[1], RMul(width, FromInt(i - 1))),
          RAdd(latitude.items[1], RMul(width, FromInt(i)))>>]

\* the latitude band in place of the longitude range
longitude_rangesMutant(longitude, lat_ranges) ==
    [i \in 1..Len(lat_ranges) |-> PyTuple(lat_ranges[i])]

longitude_ranges(longitude, lat_ranges) ==
    [i \in 1..Len(lat_ranges) |-> longitude]

\* zip(longitude_ranges, latitude_ranges) as a list of dicts
ChunkDicts(lon_ranges, lat_ranges) ==
    [i \in 1..Len(lat_ranges) |->
        [longitude |-> lon_ranges[i], latitude |-> lat_ranges[i]]]

create_geographic_chunks(longitude, latitude, geographic_chunk_size) ==
    IF ~RangesGiven(latitude, longitude) THEN Raised("AssertionError")
    ELSE IF SubscriptError(latitude) # "none" THEN Raised(SubscriptError(latitude))
    ELSE IF SubscriptError(longitude) # "none" THEN Raised(SubscriptError(longitude))
    ELSE IF RIsZero(geographic_chunk_size) THEN Raised("ZeroDivisionError")
    ELSE LET n == geographic_chunks(square_area(latitude, longitude),
                                    geographic_chunk_size)
         IN  IF n = 0 THEN Raised("ZeroDivisionError")
             ELSE LET lats == latitude_ranges(latitude,
                                              latitude_chunk_size(latitude, n), n)
                  IN  Returned(ChunkDicts(longitude_ranges(longitude, lats), lats))

CreateGeographicChunks ==
    /\ pc = "idle"
    /\ \E longitude \in GeoRanges, latitude \in GeoRanges, size \in ChunkSizes :
          /\ call' = [fn |-> "create_geographic_chunks", longitude |-> longitude,
                      latitude |-> latitude, geographic_chunk_size |-> size]
          /\ result' = create_geographic_chunks(longitude, latitude, size)
    /\ pc' = "returned"

\* The caller takes the value (or the exception); the module keeps nothing.
Return ==
    /\ pc = "returned"
    /\ pc' = "idle"
    /\ call' = NoCall
    /\ result' = NoResult

Init ==
    /\ pc = "idle"
    /\ call = NoCall
    /\ result = NoResult

NextGeo == CreateGeographicChunks \/ Return

SpecGeo == Init /\ [][NextGeo]_vars

(***************************************************************************)
(* create_time_chunks and _chunk_iterable                                  *)
(***************************************************************************)
Min(a, b) == IF a < b THEN a ELSE b

\* Every sequence over S of length at most n.
SeqsUpTo(S, n) == UNION {[1..k -> S] : k \in 0..n}

\* Timestamps are the integers 1..MaxTime, in their order in time.
Datetimes == 1..MaxTime

DatetimeLists == SeqsUpTo(Datetimes, MaxListLen)

\* time_chunk_size: None, zero, a negative and the positive sizes.
TimeChunkSizes == {PyNone} \cup {PyInt(k) : k \in (-1)..MaxBatch}

\* x goes before y in sorted(..., reverse=rev); equal keys keep their order.
Before(x, y, rev) == IF rev THEN x > y ELSE x < y

\* s, sorted, with x put after every element that does not go after it.
RECURSIVE Insert(_, _, _)
Insert(x, s, rev) ==
    IF s = <<>> THEN <<x>>
    ELSE IF Before(x, s[1], rev) THEN <<x>> \o s
    ELSE <<s[1]>> \o Insert(x, Tail(s), rev)

\* sorted(s, reverse=rev)
RECURSIVE sorted(_, _)
sorted(s, rev) ==
    IF s = <<>> THEN <<>>
    ELSE Insert(s[Len(s)], sorted(SubSeq(s, 1, Len(s) - 1), rev), rev)

\* s[a:b] for 0 <= a and 0 <= b: the slice stops at the end of s.
PySlice(s, a, b) == SubSeq(s, a + 1, Min(b, Len(s)))

\* range(0, stop, step) for step > 0, as the sequence of its values.
RangeFromZero(stop, step) ==
    [k \in 1..((stop + step - 1) \div step) |-> (k - 1) * step]

\* slices one element short
chunk_iterableMutant(iterable, chunk_size) ==
    IF chunk_size = 0 THEN Raised("ValueError")
    ELSE IF chunk_size < 0 THEN Returned(<<>>)
    ELSE LET indexes == RangeFromZero(Len(iterable), chunk_size)
         IN  Returned([k \in 1..Len(indexes) |->
                          PySlice(iterable, indexes[k], indexes[k] + chunk_size - 1)])

\* _chunk_iterable: range() rejects a step of zero and is empty for a
\* negative step, since the start 0 is not above len(_iterable).
chunk_iterable(iterable, chunk_size) ==
    IF chunk_size = 0 THEN Raised("ValueError")
    ELSE IF chunk_size < 0 THEN Returned(<<>>)
    ELSE LET indexes == RangeFromZero(Len(iterable), chunk_size)
         IN  Returned([k \in 1..Len(indexes) |->
                          PySlice(iterable, indexes[k], indexes[k] + chunk_size)])

create_time_chunks(datetime_list, reversed, time_chunk_size) ==
    LET datetimes_sorted == sorted(datetime_list, reversed)
    IN  IF time_chunk_size.kind = "None" THEN Returned(<<datetimes_sorted>>)
        ELSE chunk_iterable(datetimes_sorted, time_chunk_size.n)

CreateTimeChunks ==
    /\ pc = "idle"
    /\ \E datetime_list \in DatetimeLists, reversed \in BOOLEAN,
          time_chunk_size \in TimeChunkSizes :
          /\ call' = [fn |-> "create_time_chunks", datetime_list |-> datetime_list,
                      reversed |-> reversed, time_chunk_size |-> time_chunk_size]
          /\ result' = create_time_chunks(datetime_list, reversed, time_chunk_size)
    /\ pc' = "returned"

NextTime == CreateTimeChunks \/ Return

SpecTime == Init /\ [][NextTime]_vars

(***************************************************************************)
(* group_datetimes_by_year and group_datetimes_by_month                    *)
(***************************************************************************)

\* A datetime, as far as the grouping reads it: x.year and x.month.
GroupDatetimes == [year : 1..MaxYear, month : 1..MaxMonth]

GroupLists == SeqsUpTo(GroupDatetimes, MaxGroupLen)

\* The default of the months argument.
DefaultMonths == 1..12

\* The inclusion lists drawn for months (a list is read with "in" only, so
\* it is modelled as the set of its elements).
MonthLists == (SUBSET (1..MaxMonth)) \cup {DefaultMonths}

\* The keys of the elements of s: lambda x: x.year and lambda x: x.month.
YearOf(s) == [i \in 1..Len(s) |-> s[i].year]

MonthOf(s) == [i \in 1..Len(s) |-> s[i].month]

\* itertools.groupby over a list whose elements have the given keys: one
\* (key, group) pair per run of consecutive elements with the same key, in
\* order.  A pair is [key, first, last]: the positions of the run.
RECURSIVE groupby(_, _)
groupby(keys, from) ==
    IF from > Len(keys) THEN <<>>
    ELSE LET same == {j \in from..Len(keys) :
                         \A i \in from..j : keys[i] = keys[from]}
             last == CHOOSE j \in same : \A i \in same : i <= j
         IN  <<[key |-> keys[from], first |-> from, last |-> last]>>
                 \o groupby(keys, last + 1)

\* What iterating the group of pair number run still yields when the
\* groupby iterator has moved on to pair number current (0: exhausted): a
\* group shares the iterator of its groupby and yields nothing once the
\* groupby has advanced past it.
GroupItems(s, pairs, run, current) ==
    IF run = current THEN SubSeq(s, pairs[run].first, pairs[run].last) ELSE <<>>

\* dict(pairs): a later pair with the same key replaces the earlier one.
\* dict() consumes the groupby iterator to its end before it returns, so
\* every group object stored is read with the groupby exhausted.  A value
\* is [run, items]: which pair's group object it is, and what it yields.
dict(s, pairs) ==
    [k \in {pairs[i].key : i \in 1..Len(pairs)} |->
        LET run == CHOOSE i \in 1..Len(pairs) :
                       /\ pairs[i].key = k
                       /\ \A j \in 1..Len(pairs) : pairs[j].key = k => j <= i
        IN  [run |-> run, items |-> GroupItems(s, pairs, run, 0)]]

group_datetimes_by_year(datetime_list) ==
    Returned(dict(datetime_list, groupby(YearOf(datetime_list), 1)))

\* groups the filtered list
group_datetimes_by_monthMutant(datetime_list, months) ==
    LET Included(x) == x.month \in months
        month_filtered == SelectSeq(datetime_list, Included)
    IN  Returned(dict(month_filtered, groupby(MonthOf(month_filtered), 1)))

\* month_filtered is computed (lazily) and never used.
group_datetimes_by_month(datetime_list, months) ==
    LET Included(x) == x.month \in months
        month_filtered == SelectSeq(datetime_list, Included)
    IN  Returned(dict(datetime_list, groupby(MonthOf(datetime_list), 1)))

GroupDatetimesByYear ==
    /\ pc = "idle"
    /\ \E datetime_list \in GroupLists :
          /\ call' = [fn |-> "group_datetimes_by_year", datetime_list |-> datetime_list]
          /\ result' = group_datetimes_by_year(datetime_list)
    /\ pc' = "returned"

GroupDatetimesByMonth ==
    /\ pc = "idle"
    /\ \E datetime_list \in GroupLists, months \in MonthLists :
          /\ call' = [fn |-> "group_datetimes_by_month",
                      datetime_list |-> datetime_list, months |-> months]
          /\ result' = group_datetimes_by_month(datetime_list, months)
    /\ pc' = "returned"

NextGroup == GroupDatetimesByYear \/ GroupDatetimesByMonth \/ Return

SpecGroup == Init /\ [][NextGroup]_vars

(***************************************************************************)
(* _generate_baseline                                                      *)
(***************************************************************************)
BaselineLists == {PyList(s) : s \in SeqsUpTo({PyInt(k) : k \in 1..MaxElem}, MaxBaseLen)}

WindowLengths == 0..MaxWindow

\* [[_iterable[window:window + window_length] for window in range(num_windows)]]:
\* a list whose one element is the list of the windows.
windows(iterable, window_length, num_windows) ==
    PyList(<<PyList([w \in 1..num_windows |->
                        PyList(PySlice(iterable.items, w - 1, w - 1 + window_length))])>>)

generate_baseline(iterable, window_length) ==
    IF Len(iterable.items) <= window_length THEN Returned(iterable)
    ELSE LET num_windows == Len(iterable.items) - window_length - 1
         IN  Returned(windows(iterable, window_length, num_windows))

GenerateBaseline ==
    /\ pc = "idle"
    /\ \E iterable \in BaselineLists, window_length \in WindowLengths :
          /\ call' = [fn |-> "_generate_baseline", iterable |-> iterable,
                      window_length |-> window_length]
          /\ result' = generate_baseline(iterable, window_length)
    /\ pc' = "returned"

NextBaseline == GenerateBaseline \/ Return

SpecBaseline == Init /\ [][NextBaseline]_vars

(***************************************************************************)
(* combine_geographic_chunks                                               *)
(*                                                                         *)
(* A dataset is its coordinate axes (sequences of labels) and one data     *)
(* variable: a value per cell <<latitude, longitude, time>>.  A dataset    *)
(* without a time axis has hasTime = FALSE, time = <<>> and the single     *)
(* time label 0 in its cells.                                              *)
(***************************************************************************)

\* The missing value (NaN) of a cell.
NaN == 0

\* The one label of the time axis that reindex is handed at line 64: the
\* sorted list itself, which is no time coordinate of any chunk.
ListLabel == 0

Range(s) == {s[i] : i \in 1..Len(s)}

TimeLabels(ds) == IF ds.hasTime THEN Range(ds.time) ELSE {0}

Cells(ds) == Range(ds.latitude) \X Range(ds.longitude) \X TimeLabels(ds)

\* The value of ds at a cell, missing where ds has no such cell.
ValueAt(ds, c) == IF c \in Cells(ds) THEN ds.data[c] ELSE NaN

Ascending(a, b) == [i \in 1..(b - a + 1) |-> a + i - 1]

Reverse(s) == [i \in 1..Len(s) |-> s[Len(s) + 1 - i]]

\* The bands a..b of 1..n, north to south and south to north.
Bands(n) ==
    LET spans == {ab \in (1..n) \X (1..n) : ab[1] <= ab[2]}
    IN  {Ascending(ab[1], ab[2]) : ab \in spans}
            \cup {Reverse(Ascending(ab[1], ab[2])) : ab \in spans}

\* The whole axis 1..n in either order.
WholeAxes(n) == {Ascending(1, n), Reverse(Ascending(1, n))}

\* Chunk number v of a call: a band of latitudes over the longitude and time
\* axes of the call, holding the value v in every cell but those of one
\* latitude (missing = 0: no cell is missing), so that the chunk a value
\* of the result came from can be told.
Chunk(v, lat, lon, time, hasTime, missing) ==
    LET axes == [latitude |-> lat, longitude |-> lon, time |-> time,
                 hasTime |-> hasTime]
    IN  [latitude |-> lat, longitude |-> lon, time |-> time, hasTime |-> hasTime,
         data |-> [c \in Cells(axes) |-> IF c[1] = missing THEN NaN ELSE v]]

ChunkShapes ==
    {[latitude |-> lat, missing |-> m] :
        lat \in Bands(MaxLat), m \in 0..MaxLat}

\* The chunk sequences of the calls: no chunks at all, or up to MaxChunks
\* chunks of one load (the same longitude and time axes in each).
ChunkLists ==
    {[i \in 1..Len(shapes) |->
         Chunk(i, shapes[i].latitude, lon, tm.time, tm.hasTime, shapes[i].missing)] :
        shapes \in SeqsUpTo({s \in ChunkShapes : s.missing \in Range(s.latitude) \cup {0}},
                            MaxChunks),
        lon \in WholeAxes(MaxLon),
        tm \in {[hasTime |-> FALSE, time |-> <<>>]}
                  \cup {[hasTime |-> TRUE, time |-> t] : t \in WholeAxes(MaxTimeLabels)}}

\* The index of an outer join of two indexes: the index itself when both are
\* equal, else their union in sorted order.
OuterJoin(x, y) ==
    IF x = y THEN x
    ELSE LET New(l) == l \notin Range(x)
         IN  sorted(x \o SelectSeq(y, New), FALSE)

\* prefers the values of other
combine_firstMutant(self, other) ==
    LET axes == [latitude |-> OuterJoin(self.latitude, other.latitude),
                 longitude |-> OuterJoin(self.longitude, other.longitude),
                 time |-> OuterJoin(self.time, other.time),
                 hasTime |-> self.hasTime \/ other.hasTime]
    IN  [latitude |-> axes.latitude, longitude |-> axes.longitude,
         time |-> axes.time, hasTime |-> axes.hasTime,
         data |-> [c \in Cells(axes) |->
                      IF ValueAt(other, c) # NaN THEN ValueAt(other, c)
                      ELSE ValueAt(self, c)]]

\* self.combine_first(other): the outer join of the coordinates, with the
\* values of self and, where self is missing or has no cell, those of other.
combine_first(self, other) ==
    LET axes == [latitude |-> OuterJoin(self.latitude, other.latitude),
                 longitude |-> OuterJoin(self.longitude, other.longitude),
                 time |-> OuterJoin(self.time, other.time),
                 hasTime |-> self.hasTime \/ other.hasTime]
    IN  [latitude |-> axes.latitude, longitude |-> axes.longitude,
         time |-> axes.time, hasTime |-> axes.hasTime,
         data |-> [c \in Cells(axes) |->
                      IF ValueAt(self, c) # NaN THEN ValueAt(self, c)
                      ELSE ValueAt(other, c)]]

\* The loop of lines 53-58 over chunks[1..k], k >= 1.
RECURSIVE combined_chunks(_, _)
combined_chunks(chunks, k) ==
    IF k = 1 THEN chunks[1]
    ELSE combine_first(combined_chunks(chunks, k - 1), chunks[k])

\* The indices of lines 59-64.  The comma that ends line 64 makes the time
\* entry a tuple of one element, the sorted list.
indices(combined) ==
    IF combined.hasTime
    THEN [latitude |-> PyList(sorted(combined.latitude, TRUE)),
          longitude |-> PyList(sorted(combined.longitude, FALSE)),
          time |-> PyTuple(<<PyList(sorted(combined.time, FALSE))>>)]
    ELSE [latitude |-> PyList(sorted(combined.latitude, TRUE)),
          longitude |-> PyList(sorted(combined.longitude, FALSE))]

\* ds on the given axes: the values of the cells it has, missing elsewhere.
Realigned(ds, lat, lon, time) ==
    LET axes == [latitude |-> lat, longitude |-> lon, time |-> time,
                 hasTime |-> ds.hasTime]
    IN  [latitude |-> lat, longitude |-> lon, time |-> time, hasTime |-> ds.hasTime,
         data |-> [c \in Cells(axes) |-> ValueAt(ds, c)]]

\* What reindex does with an indexer that is no one-dimensional array of
\* labels (the tuple of a list is an array of shape (1, n)) is the array
\* library's: it rejects it, or it aligns on as many labels as the tuple has
\* elements, none of which is a label of the dataset.
ReindexOutcomes == {"rejects", "aligns"}

\* combined.reindex(ind): a dimension that ind does not name keeps its axis.
reindex(ds, ind, outcome) ==
    IF "time" \notin DOMAIN ind
    THEN Returned(Realigned(ds, ind.latitude.items, ind.longitude.items, ds.time))
    ELSE IF ind.time.kind = "list"
    THEN Returned(Realigned(ds, ind.latitude.items, ind.longitude.items,
                            ind.time.items))
    ELSE IF outcome = "rejects" THEN Raised("ValueError")
    ELSE Returned(Realigned(ds, ind.latitude.items, ind.longitude.items,
                            [i \in 1..Len(ind.time.items) |-> ListLabel]))

\* With no chunk combined_chunks stays None, and None has no latitude.
combine_geographic_chunks(chunks, outcome) ==
    IF chunks = <<>> THEN Raised("AttributeError")
    ELSE LET combined == combined_chunks(chunks, Len(chunks))
         IN  reindex(combined, indices(combined), outcome)

CombineGeographicChunks ==
    /\ pc = "idle"
    /\ \E chunks \in ChunkLists, outcome \in ReindexOutcomes :
          /\ call' = [fn |-> "combine_geographic_chunks", chunks |-> chunks]
          /\ result' = combine_geographic_chunks(chunks, outcome)
    /\ pc' = "returned"

NextCombine == CombineGeographicChunks \/ Return

SpecCombine == Init /\ [][NextCombine]_vars

Next ==
    \/ CreateGeographicChunks
    \/ CombineGeographicChunks
    \/ CreateTimeChunks
    \/ GroupDatetimesByYear
    \/ GroupDatetimesByMonth
    \/ GenerateBaseline
    \/ Return

Spec == Init /\ [][Next]_vars

(***************************************************************************)
(* Properties of create_geographic_chunks                                  *)
(***************************************************************************)
GeoCall == pc = "returned" /\ call.fn = "create_geographic_chunks"

IsPair(x) == x.kind = "tuple" /\ Len(x.items) = 2

IsAbsentOrEmpty(x) == x = PyNone \/ x = PyTuple(<<>>)

Extent(x) == RSub(x.items[2], x.items[1])

Zero == FromInt(0)

\* n = ceil(area / s) for s > 0, stated without division: (n-1)*s < area <= n*s
IsCeilOfQuotient(n, area, s) ==
    /\ RLess(RMul(FromInt(n - 1), s), area)
    /\ RLeq(area, RMul(FromInt(n), s))

\* The precondition of C1: lat0 < lat1, lon0 < lon1, s > 0.
ValidGeoCall ==
    /\ GeoCall
    /\ IsPair(call.latitude) /\ IsPair(call.longitude)
    /\ RLess(call.latitude.items[1], call.latitude.items[2])
    /\ RLess(call.longitude.items[1], call.longitude.items[2])
    /\ RLess(Zero, call.geographic_chunk_size)

\* C1: for lat0 < lat1, lon0 < lon1 and s > 0 the call returns
\* ceil(((lat1-lat0)*(lon1-lon0))/s) chunks whose latitude bands, in output
\* order, partition [lat0, lat1]: the first starts at lat0, the last ends at
\* lat1, each band ends where the next starts, and all have the same
\* (positive) width.
ThmC1 ==
    ValidGeoCall =>
        /\ result.status = "ok"
        /\ LET bands == [i \in 1..Len(result.value) |-> result.value[i].latitude]
               n == Len(bands)
           IN  /\ n >= 1
               /\ IsCeilOfQuotient(n,
                                   RMul(Extent(call.latitude), Extent(call.longitude)),
                                   call.geographic_chunk_size)
               /\ bands[1][1] = call.latitude.items[1]
               /\ bands[n][2] = call.latitude.items[2]
               /\ \A i \in 1..(n - 1) : bands[i][2] = bands[i + 1][1]
               /\ \A i \in 1..n :
                     /\ RLess(bands[i][1], bands[i][2])
                     /\ RSub(bands[i][2], bands[i][1]) = RSub(bands[1][2], bands[1][1])

\* A valid call that was split into three or more bands of a width that is
\* no integer, with area / s no integer either (so that ceil rounds up).
WitC1 ==
    /\ ValidGeoCall
    /\ result.status = "ok"
    /\ Len(result.value) >= 3
    /\ result.value[2].latitude[1][2] # 1
    /\ RDiv(RMul(Extent(call.latitude), Extent(call.longitude)),
            call.geographic_chunk_size)[2] # 1

\* C2: for two-element ranges whose area (lat1-lat0)*(lon1-lon0) is zero or
\* negative the call raises nothing and returns at least one chunk (read
\* with a positive chunk size, the only reading that could hold).
ClaimC2 ==
    ( /\ GeoCall
      /\ IsPair(call.latitude) /\ IsPair(call.longitude)
      /\ RLeq(RMul(Extent(call.latitude), Extent(call.longitude)), Zero)
      /\ RLess(Zero, call.geographic_chunk_size) )
        => (result.status = "ok" /\ Len(result.value) >= 1)

\* C6: the 'longitude' entry of every returned chunk descriptor is the
\* longitude argument itself.
ThmC6 ==
    (GeoCall /\ result.status = "ok") =>
        \A i \in 1..Len(result.value) : result.value[i].longitude = call.longitude

\* A call that returned two or more chunks, none of whose latitude bands is
\* the longitude range.
WitC6 ==
    /\ GeoCall
    /\ result.status = "ok"
    /\ Len(result.value) >= 2
    /\ \A i \in 1..Len(result.value) :
          result.value[i].latitude # call.longitude.items

\* C7: when the latitude or the longitude argument is None or empty, the
\* call raises AssertionError and returns no chunks, whatever the other
\* arguments are.
ThmC7 ==
    (GeoCall /\ (IsAbsentOrEmpty(call.latitude) \/ IsAbsentOrEmpty(call.longitude))) =>
        (result.status = "AssertionError" /\ result.value = <<>>)

\* The latitude is missing while the longitude and the chunk size are fine.
WitC7 ==
    /\ GeoCall
    /\ call.latitude = PyNone
    /\ IsPair(call.longitude)
    /\ RLess(call.longitude.items[1], call.longitude.items[2])
    /\ RLess(Zero, call.geographic_chunk_size)
    /\ result.status = "AssertionError"

(***************************************************************************)
(* Properties of create_time_chunks                                        *)
(***************************************************************************)
TimeCall == pc = "returned" /\ call.fn = "create_time_chunks"

RECURSIVE Flatten(_)
Flatten(ss) == IF ss = <<>> THEN <<>> ELSE ss[1] \o Flatten(Tail(ss))

Occurrences(x, s) == Cardinality({i \in 1..Len(s) : s[i] = x})

SameElements(s, u) ==
    /\ Len(s) = Len(u)
    /\ \A i \in 1..Len(s) : Occurrences(s[i], s) = Occurrences(s[i], u)

InOrder(s, rev) ==
    \A i \in 1..(Len(s) - 1) : IF rev THEN s[i] >= s[i + 1] ELSE s[i] <= s[i + 1]

\* C5: for a batch size B > 0 the batches, concatenated in output order,
\* are the input sorted ascending (descending when _reversed), and every
\* batch but the last has exactly B elements.
ThmC5 ==
    (TimeCall /\ call.time_chunk_size.kind = "int" /\ call.time_chunk_size.n > 0) =>
        /\ result.status = "ok"
        /\ SameElements(Flatten(result.value), call.datetime_list)
        /\ InOrder(Flatten(result.value), call.reversed)
        /\ \A k \in 1..(Len(result.value) - 1) :
              Len(result.value[k]) = call.time_chunk_size.n

\* An unsorted list with a repeated timestamp, sorted descending and cut
\* into two or more batches of B >= 2, the last one short.
WitC5 ==
    /\ TimeCall
    /\ call.time_chunk_size.kind = "int"
    /\ call.time_chunk_size.n >= 2
    /\ call.reversed
    /\ ~InOrder(call.datetime_list, TRUE)
    /\ ~InOrder(call.datetime_list, FALSE)
    /\ \E i, j \in 1..Len(call.datetime_list) :
          i # j /\ call.datetime_list[i] = call.datetime_list[j]
    /\ result.status = "ok"
    /\ Len(result.value) >= 2
    /\ Len(result.value[Len(result.value)]) < call.time_chunk_size.n

(***************************************************************************)
(* Properties of the grouping functions                                    *)
(***************************************************************************)
YearCall == pc = "returned" /\ call.fn = "group_datetimes_by_year"

MonthCall == pc = "returned" /\ call.fn = "group_datetimes_by_month"

\* The grouping key of element i of the list of the call.
CallKey(i) ==
    IF call.fn = "group_datetimes_by_year"
    THEN call.datetime_list[i].year
    ELSE call.datetime_list[i].month

\* The positions where a run of equal keys starts.
RunStarts ==
    {i \in 1..Len(call.datetime_list) : i = 1 \/ CallKey(i) # CallKey(i - 1)}

\* The same key occurs in two runs that are not adjacent.
KeyRecurs ==
    \E i, j \in RunStarts : i < j /\ CallKey(i) = CallKey(j)

\* C8: when the same year (month) occurs in two or more non-adjacent runs
\* of the list, every run has its own group in the returned mapping: no run
\* is merged into another and none is lost.
ClaimC8 ==
    ((YearCall \/ MonthCall) /\ KeyRecurs) =>
        /\ result.status = "ok"
        /\ \A r \in 1..Cardinality(RunStarts) :
              \E k \in DOMAIN result.value : result.value[k].run = r

BaselineCall == pc = "returned" /\ call.fn = "_generate_baseline"

\* C9: for n > W the value returned is the list of exactly n - W - 1
\* windows, the k-th (k = 0 .. n-W-2) being the W consecutive elements of
\* the input from offset k; for n <= W it is the input itself.
ClaimC9 ==
    BaselineCall =>
        LET n == Len(call.iterable.items)
            W == call.window_length
        IN  /\ result.status = "ok"
            /\ IF n > W
               THEN /\ result.value.kind = "list"
                    /\ Len(result.value.items) = n - W - 1
                    /\ \A k \in 0..(n - W - 2) :
                          result.value.items[k + 1] =
                              PyList(SubSeq(call.iterable.items, k + 1, k + W))
               ELSE result.value = call.iterable

(***************************************************************************)
(* Properties of combine_geographic_chunks                                 *)
(***************************************************************************)
CombineCall ==
    pc = "returned" /\ call.fn = "combine_geographic_chunks" /\ call.chunks # <<>>

\* The chunks, by number, whose value at cell c is not missing.
Holding(c) == {i \in 1..Len(call.chunks) : ValueAt(call.chunks[i], c) # NaN}

StrictlyAscending(s) == \A i \in 1..(Len(s) - 1) : s[i] < s[i + 1]

StrictlyDescending(s) == \A i \in 1..(Len(s) - 1) : s[i] > s[i + 1]

\* C4: whatever the order of the chunks and of their axes, the result has a
\* strictly descending latitude axis, a strictly ascending longitude axis
\* and, when the chunks have a time axis, the time coordinates in ascending
\* order as its time axis.
ClaimC4 ==
    CombineCall =>
        /\ result.status = "ok"
        /\ StrictlyDescending(result.value.latitude)
        /\ StrictlyAscending(result.value.longitude)
        /\ call.chunks[1].hasTime =>
              /\ StrictlyAscending(result.value.time)
              /\ Range(result.value.time) =
                    UNION {Range(call.chunks[i].time) : i \in 1..Len(call.chunks)}

=============================================================================
